---- MODULE Spec2Model ----
(***************************************************************************)
(* Question segmentation of the OCR server (src/ocr_server/main.py):       *)
(* split_by_question_number and parse_question_content.                    *)
(*                                                                         *)
(* A text is a sequence of tokens.  A token is an ASCII name standing for  *)
(* one character of the source text ("1", ".", " ", "A", "zh3" for the     *)
(* chinese numeral three, "dun" for the ideographic comma, ...) or for one *)
(* keyword of the source's keyword lists taken as an atom ("xingming" for  *)
(* the noise phrase, "xuanze" for the section keyword, ...).  The regular  *)
(* expressions of the source are evaluated over these tokens by the        *)
(* operators below, character class by character class.                   *)
(***************************************************************************)
EXTENDS Integers, Sequences, FiniteSets, TLC

(***************************************************************************)
(* Character classes of the regular expressions.                          *)
(***************************************************************************)
\* \s
Space == {" ", "tab"}
\* \d, in value order
DigitSeq == <<"0", "1", "2", "3", "4", "5", "6", "7", "8", "9">>
Digit == {DigitSeq[k] : k \in 1..Len(DigitSeq)}
DigitVal(c) == (CHOOSE k \in 1..Len(DigitSeq) : DigitSeq[k] = c) - 1
\* the chinese numerals one..ten, in value order
ChineseSeq == <<"zh1", "zh2", "zh3", "zh4", "zh5", "zh6", "zh7", "zh8", "zh9", "zh10">>
ChineseDigit == {ChineseSeq[k] : k \in 1..Len(ChineseSeq)}
ChineseVal(c) == CHOOSE k \in 1..Len(ChineseSeq) : ChineseSeq[k] = c
\* [\.、．::：]  ("dun" the ideographic comma, "fdot"/"fcolon" the fullwidth forms)
QPunct == {".", "dun", "fdot", ":", "fcolon"}
\* [\.、．]
SecPunct == {".", "dun", "fdot"}
\* [,，]
Comma == {",", "fcomma"}
\* [若设已如当则求]
LeadWord == {"ruo", "she", "yi", "ru", "dang", "ze", "qiu"}
\* [A-Da-d], [A-Za-z] (the letters the model's texts use)
OptionLetter == {"A", "B", "C", "D", "a", "b", "c", "d"}
Letter == OptionLetter \cup {"x", "y", "E"}
\* str.upper() on an option letter
Upper(c) ==
  CASE c = "a" -> "A" [] c = "b" -> "B" [] c = "c" -> "C" [] c = "d" -> "D"
    [] OTHER -> c

None == "None"

\* the token at position i, "EOT" past either end
At(t, i) == IF i \in 1..Len(t) THEN t[i] ELSE "EOT"

\* the first position >= i that holds no whitespace (a greedy \s*)
RECURSIVE SkipWs(_, _)
SkipWs(t, i) == IF At(t, i) \in Space THEN SkipWs(t, i + 1) ELSE i

\* the length of a greedy \d{1,2} at i (0: no digit)
DigitRun(t, i) ==
  IF At(t, i) \in Digit THEN (IF At(t, i + 1) \in Digit THEN 2 ELSE 1) ELSE 0

\* int() of the n digits at i
NumVal(t, i, n) ==
  IF n = 1 THEN DigitVal(t[i]) ELSE 10 * DigitVal(t[i]) + DigitVal(t[i + 1])

\* the length of a greedy run of chinese numerals at i
RECURSIVE ChineseRun(_, _)
ChineseRun(t, i) ==
  IF At(t, i) \in ChineseDigit THEN 1 + ChineseRun(t, i + 1) ELSE 0

\* chinese_num_map.get(num_str) for the n numerals at i: {} for a missing key
chinese_num_map(t, i, n) ==
  IF n = 1 THEN {ChineseVal(t[i])}
  ELSE IF n = 2 /\ t[i] = "zh10" /\ t[i + 1] # "zh10" THEN {10 + ChineseVal(t[i + 1])}
  ELSE IF n = 2 /\ t[i] = "zh2" /\ t[i + 1] = "zh10" THEN {20}
  ELSE {}

(***************************************************************************)
(* question_patterns, one operator per template; each gives the set        *)
(* holding the extracted number, or {} when extract_question_number        *)
(* returns None.  After a greedy \d{1,2} every template asks for a         *)
(* non-digit, so backtracking into the digits never finds a match the      *)
(* greedy run misses; the same holds for \s* before a non-space.           *)
(***************************************************************************)
\* ^\s*(\d{1,2})\s*[\.、．::：]
PatNumPunct(t) ==
  LET i == SkipWs(t, 1)
      n == DigitRun(t, i)
  IN IF n > 0 /\ At(t, SkipWs(t, i + n)) \in QPunct THEN {NumVal(t, i, n)} ELSE {}

\* ^\s*(\d{1,2})\s*[,，]?\s*[若设已如当则求]
PatNumLead(t) ==
  LET i == SkipWs(t, 1)
      n == DigitRun(t, i)
      j == SkipWs(t, i + n)
      k == IF At(t, j) \in Comma THEN SkipWs(t, j + 1) ELSE j
  IN IF n > 0 /\ At(t, k) \in LeadWord THEN {NumVal(t, i, n)} ELSE {}

\* ^\s*<open>\s*(\d{1,2})\s*<close>
PatBracket(t, open, close) ==
  LET o == SkipWs(t, 1)
      i == SkipWs(t, o + 1)
      n == DigitRun(t, i)
  IN IF At(t, o) \in open /\ n > 0 /\ At(t, SkipWs(t, i + n)) \in close
     THEN {NumVal(t, i, n)} ELSE {}

\* ^\s*(十[一二三四五六七八九]?)\s*[\.、．::：]
PatChineseTen(t) ==
  LET i == SkipWs(t, 1)
      two == At(t, i + 1) \in (ChineseDigit \ {"zh10"})
  IN IF At(t, i) # "zh10" THEN {}
     ELSE IF two /\ At(t, SkipWs(t, i + 2)) \in QPunct THEN chinese_num_map(t, i, 2)
     ELSE IF At(t, SkipWs(t, i + 1)) \in QPunct THEN chinese_num_map(t, i, 1)
     ELSE {}

\* ^\s*([一二三四五六七八九])\s*[\.、．::：]
PatChineseOne(t) ==
  LET i == SkipWs(t, 1)
  IN IF At(t, i) \in (ChineseDigit \ {"zh10"}) /\ At(t, SkipWs(t, i + 1)) \in QPunct
     THEN chinese_num_map(t, i, 1) ELSE {}

\* ^\s*第\s*(\d{1,2})\s*题
PatDiNum(t) ==
  LET o == SkipWs(t, 1)
      i == SkipWs(t, o + 1)
      n == DigitRun(t, i)
  IN IF At(t, o) = "di" /\ n > 0 /\ At(t, SkipWs(t, i + n)) = "ti"
     THEN {NumVal(t, i, n)} ELSE {}

\* ^\s*第\s*([一二三四五六七八九十]+)\s*题
PatDiChinese(t) ==
  LET o == SkipWs(t, 1)
      i == SkipWs(t, o + 1)
      n == ChineseRun(t, i)
  IN IF At(t, o) = "di" /\ n > 0 /\ At(t, SkipWs(t, i + n)) = "ti"
     THEN chinese_num_map(t, i, n) ELSE {}

\* ^\s*(\d{1,2})\s*$
PatNumOnly(t) ==
  LET i == SkipWs(t, 1)
      n == DigitRun(t, i)
  IN IF n > 0 /\ SkipWs(t, i + n) = Len(t) + 1 THEN {NumVal(t, i, n)} ELSE {}

question_patterns(t) ==
  << PatNumPunct(t), PatNumLead(t),
     PatBracket(t, {"(", "flparen"}, {")", "frparen"}),
     PatBracket(t, {"["}, {"]"}), PatBracket(t, {"{"}, {"}"}),
     PatChineseTen(t), PatChineseOne(t), PatDiNum(t), PatDiChinese(t),
     PatNumOnly(t) >>

\* the loop over question_patterns: the first template that extracts a number
question_num(t) ==
  LET ps == question_patterns(t)
      hit == {k \in 1..Len(ps) : ps[k] # {}}
  IN IF hit = {} THEN {} ELSE ps[CHOOSE k \in hit : \A m \in hit : k <= m]

(***************************************************************************)
(* The keyword lists of split_by_question_number.                          *)
(***************************************************************************)
\* noise_keywords: `kw in text` for any of them
noise_keywords ==
  {"datiqian", "kaoshengwubi", "xingming", "kaoshenghao", "kaochang", "zuowei",
   "kaoshijieshu", "shijuanhedatika", "yibingjiaohui", "benshijuan",
   "kaoshineirong", "bixiu", "diliuzhang", "zhuyishixiang", "datika",
   "mifengxian"}

\* (variant) the noise test made only for lines without a number
NoiseUnlessNumbered(t) == (\E i \in 1..Len(t) : t[i] \in noise_keywords) /\ question_num(t) = {}
is_noise(t) == \E i \in 1..Len(t) : t[i] \in noise_keywords

\* section_patterns, in order: <<keywords, section type>>
section_patterns ==
  << <<{"xuanze", "danxuan", "duoxuan"}, "xuanzeti">>,
     <<{"tiankong"}, "tiankongti">>,
     <<{"jieda", "jisuan"}, "jiedati">>,
     <<{"panduan", "shifei"}, "panduanti">>,
     <<{"jianda"}, "jiandati">>,
     <<{"lunshu"}, "lunshuti">>,
     <<{"cihui"}, "cihuiti">>,
     <<{"yuedu"}, "yuedulijie">>,
     <<{"xiezuo", "zuowen"}, "xiezuoti">> >>

\* re.search of [一二三四五六七八九十]+\s*[\.、．]?\s*(kw): a numeral, then
\* whitespace with at most one punctuation mark in it, then the keyword
SectionSearch(t, kws) ==
  \E j \in 1..Len(t) : \E i \in 1..(j - 1) :
    /\ t[j] \in kws
    /\ t[i] \in ChineseDigit
    /\ \A m \in (i + 1)..(j - 1) : t[m] \in Space \cup SecPunct
    /\ Cardinality({m \in (i + 1)..(j - 1) : t[m] \in SecPunct}) <= 1

\* the loop over section_patterns: the type of the first pattern found, or
\* the context as it was
SectionContext(t, ctx) ==
  LET hit == {k \in 1..Len(section_patterns) : SectionSearch(t, section_patterns[k][1])}
  IN IF hit = {} THEN ctx
     ELSE section_patterns[CHOOSE k \in hit : \A m \in hit : k <= m][2]

is_section_header(t) == \E k \in 1..Len(section_patterns) : SectionSearch(t, section_patterns[k][1])

\* two tokens in a row
HasPair(t, a, b) == \E i \in 1..Len(t) : t[i] \in a /\ At(t, i + 1) \in b
\* open, whitespace, close
HasParens(t, open, close) ==
  \E i \in 1..Len(t) : t[i] = open /\ At(t, SkipWs(t, i + 1)) = close
HasToken(t, kws) == \E i \in 1..Len(t) : t[i] \in kws

\* question_type_keywords, in the dict's order: does any keyword of the
\* k-th type occur (re.search) in the text
TypeKeywordFound(t, k) ==
  CASE k = 1 -> \/ HasPair(t, {"A", "B", "C", "D"}, {"."})
                \/ HasPair(t, {"A", "B"}, {"fdot"})
                \/ HasParens(t, "flparen", "frparen")
                \/ HasParens(t, "(", ")")
                \/ HasToken(t, {"xuanxiang"})
    [] k = 2 -> HasToken(t, {"_", "emdash", "funderscore", "tianru", "tianxie"})
    [] k = 3 -> HasToken(t, {"duicuo", "zhengque", "cuowu", "check", "cross",
                             "duideda", "cuodeda"})
    [] k = 4 -> HasToken(t, {"qiu", "zhengming", "jieda", "jisuan", "huajian"})
    [] k = 5 -> HasToken(t, {"jianshu", "shuoming", "jieshi", "fenxi"})

question_types == <<"xuanzeti", "tiankongti", "panduanti", "jiedati", "jiandati">>

detect_question_type(t) ==
  LET hit == {k \in 1..Len(question_types) : TypeKeywordFound(t, k)}
  IN IF hit = {} THEN None
     ELSE question_types[CHOOSE k \in hit : \A m \in hit : k <= m]

(***************************************************************************)
(* parse_question_content.  Positions are 1-based; a match is              *)
(* [start, end, label] with the matched tokens at start..end-1.            *)
(***************************************************************************)
\* str.strip()
RECURSIVE StripLeft(_)
StripLeft(t) == IF t # <<>> /\ Head(t) \in Space \cup {"nl"} THEN StripLeft(Tail(t)) ELSE t
RECURSIVE StripRight(_)
StripRight(t) ==
  IF t # <<>> /\ t[Len(t)] \in Space \cup {"nl"} THEN StripRight(SubSeq(t, 1, Len(t) - 1)) ELSE t
Strip(t) == StripRight(StripLeft(t))

\* ocr_text.split('\n')
RECURSIVE SplitLines(_)
SplitLines(t) ==
  LET nls == {i \in 1..Len(t) : t[i] = "nl"}
  IN IF nls = {} THEN <<t>>
     ELSE LET i == CHOOSE k \in nls : \A m \in nls : k <= m
          IN <<SubSeq(t, 1, i - 1)>> \o SplitLines(SubSeq(t, i + 1, Len(t)))

\* noise_words: re.search of any of them in the line
noise_words ==
  {"mi2fengxian", "mifengxian", "zhuangdingxian", "datika", "kaoshengxuzhi",
   "zhuyishixiang", "xingming", "banji", "xuexiao", "kaohao", "buyaodati"}
\* (a keyword atom that contains a noise word as a substring is found as
\* well: the phrase "shijuanhedatika" ends in "datika", "diliuzhang" starts
\* with "di"; '第.*页' and '共.*页' are "di"/"gong" with a later "ye")
is_noise_line(t) ==
  \/ \E i \in 1..Len(t) : t[i] \in noise_words \cup {"shijuanhedatika"}
  \/ \E i \in 1..Len(t) : \E j \in (i + 1)..Len(t) :
       t[i] \in {"di", "diliuzhang", "gong"} /\ t[j] = "ye"

\* the lines kept: stripped, non-empty, not noise
RECURSIVE clean_lines(_)
clean_lines(ls) ==
  IF ls = <<>> THEN <<>>
  ELSE LET line == Strip(Head(ls))
       IN IF line = <<>> \/ is_noise_line(line) THEN clean_lines(Tail(ls))
          ELSE <<line>> \o clean_lines(Tail(ls))

\* ' '.join(clean_lines)
RECURSIVE JoinSpace(_)
JoinSpace(ls) ==
  IF ls = <<>> THEN <<>>
  ELSE IF Len(ls) = 1 THEN ls[1]
  ELSE ls[1] \o <<" ">> \o JoinSpace(Tail(ls))

clean_text(t) == JoinSpace(clean_lines(SplitLines(t)))

\* ([A-Da-d])[\.、．::：]\s*  at position p: the match, or <<>>
MatchStandard(t, p) ==
  IF At(t, p) \in OptionLetter /\ At(t, p + 1) \in QPunct
  THEN <<[start |-> p, end |-> SkipWs(t, p + 2), label |-> t[p]]>>
  ELSE <<>>

\* ([A-Da-d])\s+(?=[^A-Za-z]) with the letter at l: the end of the match, or
\* 0.  \s+ is greedy; when the run of whitespace ends the text or is followed
\* by a letter, the pattern backtracks one whitespace, which then stands for
\* the non-letter the lookahead asks for.
LoneLetterEnd(t, l) ==
  LET e == SkipWs(t, l + 1)
      w == e - (l + 1)
  IN IF At(t, l) \notin OptionLetter \/ w = 0 THEN 0
     ELSE IF e <= Len(t) /\ t[e] \notin Letter THEN e
     ELSE IF w >= 2 THEN e - 1
     ELSE 0

\* (?:^|\s)([A-Da-d])\s+(?=[^A-Za-z])  at position p: ^ is tried first
MatchLone(t, p) ==
  IF p = 1 /\ LoneLetterEnd(t, 1) # 0
  THEN <<[start |-> 1, end |-> LoneLetterEnd(t, 1), label |-> t[1]]>>
  ELSE IF At(t, p) \in Space /\ LoneLetterEnd(t, p + 1) # 0
  THEN <<[start |-> p, end |-> LoneLetterEnd(t, p + 1), label |-> t[p + 1]]>>
  ELSE <<>>

option_patterns == <<"standard", "lone">>
MatchAt(pattern, t, p) == IF pattern = "standard" THEN MatchStandard(t, p) ELSE MatchLone(t, p)

\* list(re.finditer(pattern, t)) from position p on: leftmost matches, not
\* overlapping
RECURSIVE finditer(_, _, _)
finditer(pattern, t, p) ==
  IF p > Len(t) THEN <<>>
  ELSE LET m == MatchAt(pattern, t, p)
       IN IF m = <<>> THEN finditer(pattern, t, p + 1)
          ELSE m \o finditer(pattern, t, m[1].end)

\* the number of matches a template needs to be used
MinOptionMatches == 2

\* the loop over option_patterns: the matches of the first template that
\* finds enough of them, or <<>>
\* (variant) one marker is enough
AnyMatch(found) == Len(found) >= 1
\* len(found) >= 2: a template is used when it finds at least two markers
EnoughMatches(found) == Len(found) >= MinOptionMatches

option_matches(t) ==
  LET found(k) == finditer(option_patterns[k], t, 1)
      ok == {k \in 1..Len(option_patterns) : EnoughMatches(found(k))}
  IN IF ok = {} THEN <<>> ELSE found(CHOOSE k \in ok : \A m \in ok : k <= m)

LabelRank(l) == CASE l = "A" -> 1 [] l = "B" -> 2 [] l = "C" -> 3 [] l = "D" -> 4 [] OTHER -> 5

\* (variant) the options left in the order of the markers
Unsorted(os) == os
\* options.sort(key=label): a stable insertion sort
RECURSIVE InsertOption(_, _)
InsertOption(sorted, o) ==
  IF sorted = <<>> THEN <<o>>
  ELSE IF LabelRank(o.label) < LabelRank(Head(sorted).label) THEN <<o>> \o sorted
  ELSE <<Head(sorted)>> \o InsertOption(Tail(sorted), o)
RECURSIVE SortOptions(_)
SortOptions(os) ==
  IF os = <<>> THEN <<>> ELSE InsertOption(SortOptions(SubSeq(os, 1, Len(os) - 1)), os[Len(os)])

\* (variant) every content runs to the end of the text
ToTextEnd(t, matches, i) == Len(t) + 1
\* where the content of the i-th match ends: the start of the next match, or
\* the end of the text
OptionEnd(t, matches, i) ==
  IF i + 1 <= Len(matches) THEN matches[i + 1].start ELSE Len(t) + 1

\* the loop over the matches, from the i-th on, with the labels found so far
RECURSIVE collect_options(_, _, _, _)
collect_options(t, matches, i, found_labels) ==
  IF i > Len(matches) THEN <<>>
  ELSE LET label == Upper(matches[i].label)
           content == Strip(SubSeq(t, matches[i].end, OptionEnd(t, matches, i) - 1))
       IN IF label \in found_labels THEN collect_options(t, matches, i + 1, found_labels)
          ELSE (IF content # <<>> THEN <<[label |-> label, content |-> content]>> ELSE <<>>)
               \o collect_options(t, matches, i + 1, found_labels \cup {label})

\* the stem when options are found: the text before the first match
StemBefore(t, matches) == Strip(SubSeq(t, 1, matches[1].start - 1))

parse_question_content(ocr_text) ==
  IF ocr_text = <<>> THEN [stem |-> <<>>, options |-> <<>>]
  ELSE LET t == clean_text(ocr_text)
           matches == option_matches(t)
       IN IF matches = <<>> THEN [stem |-> Strip(t), options |-> <<>>]
          ELSE [stem |-> StemBefore(t, matches),
                options |-> SortOptions(collect_options(t, matches, 1, {}))]

(***************************************************************************)
(* split_by_question_number as a state machine: one step per input line,   *)
(* one for the end of the input (flush and sort), one per question of the  *)
(* cropping loop.  The image is its height; its pixels and the base64 of a  *)
(* crop are not modelled.  y0 of a line is an int (the callers build it     *)
(* with int()), so int(q["y0"]) is the value itself.                        *)
(***************************************************************************)
\* the margins and the fallback window of the cropping loop
CloseGap == 5
CropMargin == 10
FallbackWindow == 100
\* the valid question numbers
MinNumber == 1
MaxNumber == 100

\* the longest input
MaxLines == 3

\* the texts of the input lines
TextQ1 == <<"1", ".", "x">>
TextQ2 == <<"2", ".", "qiu">>
TextQ0 == <<"0", ".">>
TextOptionLine == <<"A", ".", "x">>
TextNoise == <<"zh3", "dun", "xuanze", "xingming">>
TextSection == <<"zh2", "tiankong">>
TextSectionNumbered == <<"zh3", "dun", "xuanze">>
Texts == {TextQ1, TextQ2, TextQ0, TextOptionLine, TextNoise,
          TextSection, TextSectionNumbered}
\* the y0 of the input lines (the last one is a line reported below the
\* image) and the image heights
Ys == {8, 30, 150}
Heights == {140}
\* a y0 above the image, reported for the question-start lines
YsAbove == {-20}
LineRecords == [text : Texts, y0 : Ys] \cup [text : {TextQ1, TextQ2}, y0 : YsAbove]

VARIABLES
  lines,                 \* the input lines read so far, in input order
  height,                \* img_array.shape[0]
  questions,             \* the closed questions
  current_question,      \* <<>> (None) or <<the open question>>
  current_section_type,  \* None or the section type
  used_numbers,
  pc,                    \* "scan", "crop", "done"
  qi,                    \* the cropping loop's position in questions
  results,
  raised,                \* the indices of the questions whose crop raised
  ocr_text,              \* the text given to parse_question_content
  parsed,                \* <<>> or <<its result>>
  ppc                    \* "idle", "ready", "parsed"

\* the image services: handwriting erasing and geometry correction
VARIABLES
  doc_cleaner,           \* main.py's global: None or TRUE
  data,                  \* <<>> or <<the request being served>>
  response,              \* <<>> or <<the answer to the last request>>
  served,                \* the number of requests answered
  pts,                   \* the four points given to order_points
  rect,                  \* <<>> or <<its result>>
  hough_lines,           \* the angles of the lines HoughLinesP found
  rotation,              \* <<>> or <<the result of detect_and_correct_rotation>>
  crop_in,               \* the image given to auto_crop_whitespace
  padding,
  crop_out,              \* <<>> or <<the image returned>>
  processed,             \* correct_image: the image as corrected so far
  config,                \* auto_perspective, auto_rotate, auto_crop
  result,                \* the report of correct_image
  contour,               \* None or "quad": what find_document_contour gave
  angle,                 \* what detect_and_correct_rotation returned
  rotated,               \* whether it rotated the image
  gpc,                   \* "idle", "perspective", "rotate", "crop", "done"
  run                    \* the number of the run of correct_image

eraseVars == <<doc_cleaner, data, response, served>>
orderVars == <<pts, rect>>
rotationVars == <<hough_lines, rotation>>
cropVars == <<crop_in, padding, crop_out>>
geometryVars == <<processed, config, result, contour, angle, rotated, gpc, run>>
imageVars == <<eraseVars, orderVars, rotationVars, cropVars, geometryVars>>

vars == <<lines, height, questions, current_question, current_section_type,
          used_numbers, pc, qi, results, raised, ocr_text, parsed, ppc,
          imageVars>>
splitVars == <<lines, height, questions, current_question, current_section_type,
               used_numbers, pc, qi, results, raised>>
parseVars == <<ocr_text, parsed, ppc>>
\* what the loop over the lines keeps from one line to the next
assembler == <<questions, current_question, current_section_type, used_numbers>>

InitSplit ==
  /\ lines = <<>>
  /\ height \in Heights
  /\ questions = <<>>
  /\ current_question = <<>>
  /\ current_section_type = None
  /\ used_numbers = {}
  /\ pc = "scan"
  /\ qi = 1
  /\ results = <<>>
  /\ raised = {}

IdleParse == ocr_text = <<>> /\ parsed = <<>> /\ ppc = "idle"

IdleErase == doc_cleaner = None /\ data = <<>> /\ response = <<>> /\ served = 0
IdleOrder == pts = <<>> /\ rect = <<>>
IdleRotation == hough_lines = <<>> /\ rotation = <<>>
IdleCrop == crop_in = <<>> /\ padding = 0 /\ crop_out = <<>>
IdleGeometry ==
  /\ processed = <<>>
  /\ config = <<>>
  /\ result = <<>>
  /\ contour = None
  /\ angle = 0
  /\ rotated = FALSE
  /\ gpc = "idle"
  /\ run = 0
IdleImage == IdleErase /\ IdleOrder /\ IdleRotation /\ IdleCrop /\ IdleGeometry

Init == InitSplit /\ IdleParse /\ IdleImage

\* the caller sorts the lines by y0 before the call
Reads(line) ==
  /\ pc = "scan"
  /\ Len(lines) < MaxLines
  /\ lines # <<>> => lines[Len(lines)].y0 <= line.y0
  /\ lines' = Append(lines, line)
  /\ UNCHANGED <<height, pc, qi, results, raised>>
  /\ UNCHANGED <<parseVars, imageVars>>

\* is_noise: continue
SkipNoise ==
  \E line \in LineRecords :
    /\ Reads(line)
    /\ is_noise(line.text)
    /\ UNCHANGED assembler

\* (variant) the line with the used number joins the open question
SkippedLineAppended(cur, text) ==
  IF cur # <<>> THEN <<[cur[1] EXCEPT !.lines = Append(@, text)]>> ELSE cur
\* the open question after a line with a used number: the line is skipped
SkippedLine(cur, text) == cur

\* a number that is in used_numbers: continue (after the section context)
SkipUsedNumber ==
  \E line \in LineRecords :
    /\ Reads(line)
    /\ ~is_noise(line.text)
    /\ question_num(line.text) # {}
    /\ question_num(line.text) \subseteq used_numbers
    /\ current_section_type' = SectionContext(line.text, current_section_type)
    /\ current_question' = SkippedLine(current_question, line.text)
    /\ UNCHANGED <<questions, used_numbers>>

\* (variant) every number is accepted
AnyNumber(n) == TRUE
\* the plausibility test of a number: 1..100
ValidNumber(n) == ~(n < MinNumber \/ n > MaxNumber)

\* a number outside 1..100: continue
SkipInvalidNumber ==
  \E line \in LineRecords :
    /\ Reads(line)
    /\ ~is_noise(line.text)
    /\ \E n \in question_num(line.text) : n \notin used_numbers /\ ~ValidNumber(n)
    /\ current_section_type' = SectionContext(line.text, current_section_type)
    /\ UNCHANGED <<questions, current_question, used_numbers>>

\* the open question as it is closed: its first line joins its lines
Closed(q) == [q EXCEPT !.lines = Append(q.lines, q.first_line)]

\* the questions once the open one, if any, is closed with y1
CloseCurrent(qs, cur, y1) ==
  IF cur # <<>> THEN Append(qs, Closed([cur[1] EXCEPT !.y1 = y1])) ELSE qs

\* detect_question_type(text) or current_section_type
StartType(text, ctx) ==
  IF detect_question_type(text) # None THEN detect_question_type(text) ELSE ctx

\* a new number in range: close the open question, open the new one
StartQuestion ==
  \E line \in LineRecords :
    /\ Reads(line)
    /\ ~is_noise(line.text)
    /\ \E n \in question_num(line.text) :
         /\ n \notin used_numbers
         /\ ValidNumber(n)
         /\ current_section_type' = SectionContext(line.text, current_section_type)
         /\ questions' = CloseCurrent(questions, current_question, line.y0 - CloseGap)
         /\ current_question' =
              <<[index |-> n, y0 |-> line.y0, y1 |-> height, first_line |-> line.text,
                 lines |-> <<>>, type |-> StartType(line.text, current_section_type')]>>
         /\ used_numbers' = used_numbers \cup {n}

\* (variant) the line is not kept
LineNotKept(q, text) == q
\* (variant) the type follows the last line that shows one
TypeOverwritten(q, text) ==
  [q EXCEPT !.lines = Append(q.lines, text),
            !.type = IF detect_question_type(text) # None
                     THEN detect_question_type(text) ELSE q.type]
\* the open question with one more line, and its type if it had none
WithLine(q, text) ==
  [q EXCEPT !.lines = Append(q.lines, text),
            !.type = IF q.type = None THEN detect_question_type(text) ELSE q.type]

\* no number, a question is open: the line belongs to it
AppendLine ==
  \E line \in LineRecords :
    /\ Reads(line)
    /\ ~is_noise(line.text)
    /\ question_num(line.text) = {}
    /\ current_question # <<>>
    /\ current_section_type' = SectionContext(line.text, current_section_type)
    /\ current_question' = <<WithLine(current_question[1], line.text)>>
    /\ UNCHANGED <<questions, used_numbers>>

\* no number, no question open: nothing keeps the line
DropLine ==
  \E line \in LineRecords :
    /\ Reads(line)
    /\ ~is_noise(line.text)
    /\ question_num(line.text) = {}
    /\ current_question = <<>>
    /\ current_section_type' = SectionContext(line.text, current_section_type)
    /\ UNCHANGED <<questions, current_question, used_numbers>>

\* (variant) the questions left in discovery order
NoSort(qs) == qs
\* questions.sort(key=index): a stable insertion sort
RECURSIVE InsertQuestion(_, _)
InsertQuestion(sorted, q) ==
  IF sorted = <<>> THEN <<q>>
  ELSE IF q.index < Head(sorted).index THEN <<q>> \o sorted
  ELSE <<Head(sorted)>> \o InsertQuestion(Tail(sorted), q)
RECURSIVE SortQuestions(_)
SortQuestions(qs) ==
  IF qs = <<>> THEN <<>>
  ELSE InsertQuestion(SortQuestions(SubSeq(qs, 1, Len(qs) - 1)), qs[Len(qs)])

\* the end of the input: the open question is closed, the questions sorted
EndOfInput ==
  /\ pc = "scan"
  /\ questions' = SortQuestions(CloseCurrent(questions, current_question,
                                             IF current_question # <<>>
                                             THEN current_question[1].y1 ELSE height))
  /\ current_question' =
       IF current_question # <<>> THEN <<Closed(current_question[1])>> ELSE <<>>
  /\ pc' = "crop"
  /\ qi' = 1
  /\ UNCHANGED <<lines, height, current_section_type, used_numbers, results, raised>>
  /\ UNCHANGED <<parseVars, imageVars>>

Max(a, b) == IF a >= b THEN a ELSE b
Min(a, b) == IF a <= b THEN a ELSE b

\* (variant) the end recorded when the question was closed, which follows
\* the input order
RecordedY1(qs, i, h) == qs[i].y1
\* where the i-th question ends: 5 above the next question in the sorted
\* list, or at the bottom of the image
NextY1(qs, i, h) == IF i < Len(qs) THEN qs[i + 1].y0 - CloseGap ELSE h

\* (variant) the window starts at the margin above the question
WindowFromMargin(q, h) ==
  LET y0 == Max(0, q.y0 - CropMargin)
  IN [y0 |-> y0, y1 |-> Min(h, y0 + FallbackWindow)]
\* the fallback of an empty range: a window from the question's own y0
FallbackRange(q, h) ==
  LET y0 == Max(0, q.y0)
  IN [y0 |-> y0, y1 |-> Min(h, y0 + FallbackWindow)]

\* (variant) the range with its margins, not brought into the image
RangeUnclamped(qs, i, h) ==
  [y0 |-> qs[i].y0 - CropMargin, y1 |-> NextY1(qs, i, h) + CropMargin]
\* the rows cropped for the i-th question
CropRange(qs, i, h) ==
  LET y0 == Max(0, qs[i].y0 - CropMargin)
      y1 == Min(h, NextY1(qs, i, h) + CropMargin)
  IN IF y0 >= y1 THEN FallbackRange(qs[i], h) ELSE [y0 |-> y0, y1 |-> y1]

\* "\n".join(ls)
RECURSIVE JoinNl(_)
JoinNl(ls) ==
  IF ls = <<>> THEN <<>>
  ELSE IF Len(ls) = 1 THEN ls[1]
  ELSE ls[1] \o <<"nl">> \o JoinNl(Tail(ls))

\* (variant) the lines joined as they are, the closing copy of the first
\* line included
TextWithClosingLine(q) == JoinNl(<<q.first_line>> \o q.lines)
\* the text of a question: its first line, then its lines other than it
OcrText(q) ==
  IF q.lines # <<>>
  THEN JoinNl(<<q.first_line>> \o SelectSeq(q.lines, LAMBDA l : l # q.first_line))
  ELSE q.first_line

\* the result appended for the i-th question
QuestionResult(qs, i, h) ==
  LET range == CropRange(qs, i, h)
      text == OcrText(qs[i])
      content == parse_question_content(text)
  IN [index |-> qs[i].index, ocrText |-> text, stem |-> content.stem,
      options |-> content.options, type |-> qs[i].type,
      y0 |-> range.y0, y1 |-> range.y1]

Cropping == pc = "crop" /\ qi <= Len(questions)

\* y1 <= y0 after the fallback: continue
CropEmpty ==
  /\ Cropping
  /\ CropRange(questions, qi, height).y1 <= CropRange(questions, qi, height).y0
  /\ qi' = qi + 1
  /\ UNCHANGED <<lines, height, assembler, pc, results, raised>>
  /\ UNCHANGED <<parseVars, imageVars>>

\* (variant) the results so far are lost
BatchLost(rs) == <<>>
\* what the batch keeps when the crop of one question raises
AfterRaise(rs) == rs

\* the crop, the encoding or the parse raises: the except clause, continue
CropRaises ==
  /\ Cropping
  /\ CropRange(questions, qi, height).y1 > CropRange(questions, qi, height).y0
  /\ results' = AfterRaise(results)
  /\ raised' = raised \cup {questions[qi].index}
  /\ qi' = qi + 1
  /\ UNCHANGED <<lines, height, assembler, pc>>
  /\ UNCHANGED <<parseVars, imageVars>>

CropAppends ==
  /\ Cropping
  /\ CropRange(questions, qi, height).y1 > CropRange(questions, qi, height).y0
  /\ results' = Append(results, QuestionResult(questions, qi, height))
  /\ qi' = qi + 1
  /\ UNCHANGED <<lines, height, assembler, pc, raised>>
  /\ UNCHANGED <<parseVars, imageVars>>

\* return results
Return ==
  /\ pc = "crop"
  /\ qi > Len(questions)
  /\ pc' = "done"
  /\ UNCHANGED <<lines, height, assembler, qi, results, raised>>
  /\ UNCHANGED <<parseVars, imageVars>>

Next ==
  \/ SkipNoise
  \/ SkipUsedNumber
  \/ SkipInvalidNumber
  \/ StartQuestion
  \/ AppendLine
  \/ DropLine
  \/ EndOfInput
  \/ CropEmpty
  \/ CropRaises
  \/ CropAppends
  \/ Return

Spec == Init /\ [][Next]_vars

(***************************************************************************)
(* parse_question_content on its own: the text is drawn from the           *)
(* concatenations of at most MaxPieces pieces and from the example texts;  *)
(* Parse applies the function.                                             *)
(***************************************************************************)
MaxPieces == 4
Pieces == {<<"x">>, <<" ">>, <<"1">>, <<"A", ".">>, <<"b", ".">>, <<" ", "A", " ">>,
           <<"nl">>, <<"xingming">>}
\* "qiu x de zhi A.1 B.2 C.3", the stem and three options
TextStemOptions ==
  <<"qiu", "x", "de", "zhi", " ", "A", ".", "1", " ", "B", ".", "2", " ", "C", ".", "3">>
\* "A 1 B 2 C.3 D.4": both templates find two markers
TextBothTemplates ==
  <<"A", " ", "1", " ", "B", " ", "2", " ", "C", ".", "3", " ", "D", ".", "4">>
\* "x A.1 A 1 b 2": the first template finds one marker, the second two
TextSecondTemplate ==
  <<"x", " ", "A", ".", "1", " ", "A", " ", "1", " ", "b", " ", "2">>
\* a stem line, a noise line, two option lines
TextWithNoiseLine ==
  <<"x", "nl", "xingming", "1", "nl", " ", "B", ".", "2", "nl", "a", ".", "1", " ">>
ExampleTexts == {TextStemOptions, TextBothTemplates, TextSecondTemplate, TextWithNoiseLine}

RECURSIVE Flatten(_)
Flatten(ps) == IF ps = <<>> THEN <<>> ELSE Head(ps) \o Flatten(Tail(ps))
\* the text is n pieces in a row
FromPieces(text, n) == \E ps \in [1..n -> Pieces] : text = Flatten(ps)

IdleSplit ==
  /\ lines = <<>>
  /\ height = 0
  /\ questions = <<>>
  /\ current_question = <<>>
  /\ current_section_type = None
  /\ used_numbers = {}
  /\ pc = "idle"
  /\ qi = 1
  /\ results = <<>>
  /\ raised = {}

InitParse ==
  /\ IdleSplit
  /\ IdleImage
  /\ \/ \E n \in 0..MaxPieces : FromPieces(ocr_text, n)
     \/ ocr_text \in ExampleTexts
  /\ parsed = <<>>
  /\ ppc = "ready"

Parse ==
  /\ ppc = "ready"
  /\ parsed' = <<parse_question_content(ocr_text)>>
  /\ ppc' = "parsed"
  /\ UNCHANGED ocr_text
  /\ UNCHANGED <<splitVars, imageVars>>

NextParse == Parse

SpecParse == InitParse /\ [][NextParse]_vars

(***************************************************************************)
(* Handwriting erasing: main.py's /erase-handwriting with its enhanced and *)
(* flat-fill paths, and erase_server.py's /erase-handwriting.  An image is *)
(* its PIL mode; an erased image records the path that filled it and the   *)
(* ink masks that were merged into the erase mask.                         *)
(***************************************************************************)
\* the number of requests a run of the servers answers
MaxRequests == 2

ImageModes == {"RGB", "RGBA", "L"}
\* np.array(image).shape: the number of channels
Channels(mode) == CASE mode = "RGB" -> 3 [] mode = "RGBA" -> 4 [] OTHER -> 1
\* if image.mode == 'RGBA': image = image.convert('RGB')
Decoded(mode) == IF mode = "RGBA" THEN "RGB" ELSE mode
\* cv2.cvtColor(img_array, cv2.COLOR_RGB2BGR) takes 3 or 4 channels
cvtColorRaises(img) == Channels(img) \notin {3, 4}

HueMasks == {"blue", "red1", "red2", "green"}
DarkMask == {"dark"}
Raised == [raised |-> TRUE, image |-> <<>>]
Returned(image) == [raised |-> FALSE, image |-> <<image>>]

\* if mode == 'black' or mode == 'auto': ... if mode == 'black': mask |= eroded
DarkSources(mode) ==
  IF mode = "black" \/ mode = "auto"
  THEN IF mode = "black" THEN DarkMask ELSE {}
  ELSE {}
\* the masks merged by erase_handwriting_opencv / erase_handwriting_process
MaskSources(mode) ==
  (IF mode = "blue" \/ mode = "auto" \/ mode = "color" THEN {"blue"} ELSE {})
  \cup (IF mode = "color" \/ mode = "auto" THEN {"red1", "red2", "green"} ELSE {})
  \cup DarkSources(mode)

erase_handwriting_opencv(img_array, mode) ==
  IF cvtColorRaises(img_array) THEN Raised
  ELSE Returned([fill |-> "flat", mask |-> MaskSources(mode),
                 smoothed |-> (mode = "auto"), of |-> img_array])
erase_handwriting_process(img_array, mode) == erase_handwriting_opencv(img_array, mode)

\* get_doc_cleaner: the global after the call
Initialized(cleaner) == IF cleaner = None THEN "True" ELSE cleaner
get_doc_cleaner(cleaner) == IF Initialized(cleaner) = "True" THEN "True" ELSE None

\* (variant) a failure of the enhanced path is raised to the caller
Reraised(img_array) == Raised
\* except Exception: return erase_handwriting_opencv(img_array, 'auto')
Fallback(img_array) == erase_handwriting_opencv(img_array, "auto")
\* inpaint_raises: cv2.inpaint fails in this call (the library's choice)
erase_handwriting_ai(img_array, cleaner, inpaint_raises) ==
  IF get_doc_cleaner(cleaner) = None THEN erase_handwriting_opencv(img_array, "auto")
  ELSE IF cvtColorRaises(img_array) \/ inpaint_raises THEN Fallback(img_array)
  ELSE Returned([fill |-> "inpaint", mask |-> HueMasks \cup DarkMask,
                 smoothed |-> TRUE, of |-> img_array])

\* the mode field of a request: absent, the documented modes, an unknown one
RequestModes == {"absent", "ai", "auto", "blue", "black", "color", "red"}
RequestImages == {"missing"} \cup ImageModes
Requests == [image : RequestImages, mode : RequestModes, inpaint_raises : BOOLEAN]

\* raise HTTPException(status_code=500, detail=str(e))
HTTPException == [status |-> 500, image |-> <<>>, mode |-> None, method |-> None]
Success(image, mode, method) ==
  [status |-> 200, image |-> <<image>>, mode |-> mode, method |-> method]

\* the services start with no request and the cleaner not yet loaded
InitErase == IdleSplit /\ IdleParse /\ IdleImage

EraseFrame ==
  UNCHANGED <<splitVars, parseVars, orderVars, rotationVars, cropVars, geometryVars>>

Servers == {"main", "erase_server"}

\* a request reaches one of the two services (only main.py calls cv2.inpaint)
Post(server, d) ==
  /\ data = <<>> \/ response # <<>>
  /\ d.inpaint_raises => server = "main"
  /\ served < MaxRequests
  /\ data' = <<[server |-> server, image |-> d.image, mode |-> d.mode,
               inpaint_raises |-> d.inpaint_raises]>>
  /\ response' = <<>>
  /\ UNCHANGED <<doc_cleaner, served>>
  /\ EraseFrame

Pending(server) == data # <<>> /\ response = <<>> /\ data[1].server = server

\* main.py: mode = data.get("mode", "ai")
ModeOrAi(d) == IF d.mode = "absent" THEN "ai" ELSE d.mode
\* main.py: actual_method
ActualMethod(mode) == IF mode = "ai" THEN "ai" ELSE "opencv"

\* main.py's handler of /erase-handwriting
erase_handwriting ==
  /\ Pending("main")
  /\ LET d == data[1]
         mode == ModeOrAi(d)
         img_array == Decoded(d.image)
         out == IF mode = "ai"
                THEN erase_handwriting_ai(img_array, doc_cleaner, d.inpaint_raises)
                ELSE erase_handwriting_opencv(img_array, mode)
     IN IF d.image = "missing"
        THEN response' = <<HTTPException>> /\ UNCHANGED doc_cleaner
        ELSE /\ response' = <<IF out.raised THEN HTTPException
                              ELSE Success(out.image[1], mode, ActualMethod(mode))>>
             /\ doc_cleaner' = IF mode = "ai" THEN Initialized(doc_cleaner)
                               ELSE doc_cleaner
  /\ served' = served + 1
  /\ UNCHANGED data
  /\ EraseFrame

\* erase_server.py: mode = data.get("mode", "auto"); unknown modes become auto
ModeOrAuto(d) == IF d.mode \in {"auto", "blue", "black", "color"} THEN d.mode ELSE "auto"

\* erase_server.py's handler of /erase-handwriting (its answer has no method)
erase_server_erase_handwriting ==
  /\ Pending("erase_server")
  /\ LET d == data[1]
         mode == ModeOrAuto(d)
         out == erase_handwriting_process(Decoded(d.image), mode)
     IN response' = <<IF d.image = "missing" \/ out.raised THEN HTTPException
                      ELSE Success(out.image[1], mode, None)>>
  /\ served' = served + 1
  /\ UNCHANGED <<data, doc_cleaner>>
  /\ EraseFrame

NextErase ==
  \/ \E server \in Servers, d \in Requests : Post(server, d)
  \/ erase_handwriting
  \/ erase_server_erase_handwriting

SpecErase == InitErase /\ [][NextErase]_vars

(***************************************************************************)
(* order_points (erase_server.py): the corners of a quadrilateral put in   *)
(* the order top-left, top-right, bottom-right, bottom-left.  A point is   *)
(* <<x, y>>; the coordinates are pixel positions, which float32 holds      *)
(* exactly.                                                                *)
(***************************************************************************)
\* the largest coordinate of a corner
MaxCoord == 2

Points == (0..MaxCoord) \X (0..MaxCoord)
\* np.argmin / np.argmax: the first position of the extreme value
argmin(f) == CHOOSE i \in DOMAIN f :
               /\ \A j \in DOMAIN f : f[i] <= f[j]
               /\ \A j \in DOMAIN f : j < i => f[j] > f[i]
argmax(f) == CHOOSE i \in DOMAIN f :
               /\ \A j \in DOMAIN f : f[i] >= f[j]
               /\ \A j \in DOMAIN f : j < i => f[j] < f[i]
\* pts.sum(axis=1)
RowSum(p) == p[1] + p[2]
\* (variant) x - y, as the comment above the call words it
RowDiffReversed(p) == p[1] - p[2]
\* np.diff(pts, axis=1): y - x
RowDiff(p) == p[2] - p[1]

order_points(ps) ==
  LET sums == [i \in DOMAIN ps |-> RowSum(ps[i])]
      diff == [i \in DOMAIN ps |-> RowDiff(ps[i])]
  IN <<ps[argmin(sums)], ps[argmin(diff)], ps[argmax(sums)], ps[argmax(diff)]>>

InitOrder ==
  /\ IdleSplit /\ IdleParse /\ IdleErase /\ IdleRotation /\ IdleCrop /\ IdleGeometry
  /\ pts \in [1..4 -> Points]
  /\ rect = <<>>

OrderPoints ==
  /\ pts # <<>>
  /\ rect = <<>>
  /\ rect' = <<order_points(pts)>>
  /\ UNCHANGED pts
  /\ UNCHANGED <<splitVars, parseVars, eraseVars, rotationVars, cropVars, geometryVars>>

NextOrder == OrderPoints

SpecOrder == InitOrder /\ [][NextOrder]_vars

(***************************************************************************)
(* detect_and_correct_rotation (erase_server.py).  An angle is a whole     *)
(* number of units, three units to the hundredth of a degree, so that      *)
(* rounding to two decimals is not the identity.  A line found by          *)
(* HoughLinesP is the angle of its direction; the angles offered are even, *)
(* which keeps the mean of two of them whole.                              *)
(***************************************************************************)
UnitsPerDegree == 3 * 100
Degrees(d) == d * UnitsPerDegree
\* abs(median_angle) < 0.5
SmallAngle == UnitsPerDegree \div 2
\* abs(median_angle) > 15
MaxRotation == Degrees(15)
\* the most lines HoughLinesP returns
MaxHoughLines == 3

Abs(a) == IF a < 0 THEN -a ELSE a
\* the angles of the lines: horizontal, vertical, diagonal and backward
\* lines, and slanted ones on both sides of half a degree and of 15 degrees
LineAngles ==
  {0, Degrees(45), Degrees(90), -Degrees(90), Degrees(180),
   SmallAngle - 2, SmallAngle + 2, -(SmallAngle - 2), -(SmallAngle + 2),
   Degrees(90) + SmallAngle + 2, Degrees(10), Degrees(20), -Degrees(20)}

\* the loop over the lines: near-horizontal angles are kept, near-vertical
\* ones are kept turned by 90 degrees, the others are left out
RECURSIVE KeptAngles(_)
KeptAngles(ls) ==
  IF ls = <<>> THEN <<>>
  ELSE LET a == Head(ls)
           rest == KeptAngles(Tail(ls))
       IN IF Abs(a) < Degrees(45) THEN <<a>> \o rest
          ELSE IF Abs(a) > Degrees(45) /\ Abs(a) < Degrees(135)
               THEN <<IF a > 0 THEN a - Degrees(90) ELSE a + Degrees(90)>> \o rest
               ELSE rest

RECURSIVE InsertAngle(_, _)
InsertAngle(as, a) ==
  IF as = <<>> THEN <<a>>
  ELSE IF a <= Head(as) THEN <<a>> \o as
       ELSE <<Head(as)>> \o InsertAngle(Tail(as), a)
RECURSIVE SortAngles(_)
SortAngles(as) == IF as = <<>> THEN <<>> ELSE InsertAngle(SortAngles(Tail(as)), Head(as))
\* np.median: the middle value, or the mean of the two middle values
Median(as) ==
  LET sorted == SortAngles(as)
      n == Len(as)
  IN IF n % 2 = 1 THEN sorted[(n + 1) \div 2]
     ELSE (sorted[n \div 2] + sorted[n \div 2 + 1]) \div 2

\* (variant) the angle is used as estimated
Unclamped(m) == m
\* if abs(median_angle) > 15: median_angle = 15 if median_angle > 0 else -15
Clamped(m) ==
  IF Abs(m) > MaxRotation THEN (IF m > 0 THEN MaxRotation ELSE -MaxRotation) ELSE m

Untouched == [rotated |-> FALSE, angle |-> 0]
\* ls = <<>> stands for `lines is None`
detect_and_correct_rotation(ls) ==
  IF ls = <<>> THEN Untouched
  ELSE IF KeptAngles(ls) = <<>> THEN Untouched
  ELSE IF Abs(Median(KeptAngles(ls))) < SmallAngle THEN Untouched
  ELSE [rotated |-> TRUE, angle |-> Clamped(Median(KeptAngles(ls)))]

\* the lines HoughLinesP can return: up to n lines
LinesUpTo(n) == UNION {[1..k -> LineAngles] : k \in 0..n}

InitRotation ==
  /\ IdleSplit /\ IdleParse /\ IdleErase /\ IdleOrder /\ IdleCrop /\ IdleGeometry
  /\ hough_lines \in LinesUpTo(MaxHoughLines)
  /\ rotation = <<>>

DetectAndCorrectRotation ==
  /\ gpc = "idle"
  /\ rotation = <<>>
  /\ rotation' = <<detect_and_correct_rotation(hough_lines)>>
  /\ UNCHANGED hough_lines
  /\ UNCHANGED <<splitVars, parseVars, eraseVars, orderVars, cropVars, geometryVars>>

NextRotation == DetectAndCorrectRotation

SpecRotation == InitRotation /\ [][NextRotation]_vars

(***************************************************************************)
(* auto_crop_whitespace (erase_server.py).  An image is its size and the   *)
(* bounding box of its content pixels (those the threshold at 250 turns    *)
(* non-zero), which is all the function reads of the pixels; content is    *)
(* <<>> when findNonZero gives None.                                       *)
(***************************************************************************)
Image(w, h, content) == [width |-> w, height |-> h, content |-> content]
Box(x, y, w, h) == [x |-> x, y |-> y, w |-> w, h |-> h]

\* the extent of an image and of its content along one axis
AxisSizes == {12, 40}
AxisStarts == {0, 4, 10, 15}
AxisLengths == {1, 5, 20}
Extents == {e \in [size : AxisSizes, start : AxisStarts, len : AxisLengths] :
              e.start + e.len <= e.size}
Images ==
  {Image(ex.size, ey.size, <<Box(ex.start, ey.start, ex.len, ey.len)>>) :
     ex \in Extents, ey \in Extents}
  \cup {Image(w, h, <<>>) : w \in AxisSizes, h \in AxisSizes}
\* padding: int = 10, and smaller values a caller may pass
DefaultPadding == 10
Paddings == {0, 4, DefaultPadding}

\* x = max(0, x - padding)
PadStart(start, p) == Max(0, start - p)
\* (variant) the padding added once to the length
PadLengthOnce(size, start, len, p) == Min(size - start, len + p)
\* w = min(img.shape[1] - x, w + 2 * padding), x being the padded start
PadLength(size, start, len, p) == Min(size - start, len + 2 * p)

\* the slice img[y:y+h, x:x+w]: where it starts in img, and the image it is
auto_crop_whitespace(img, p) ==
  IF img.content = <<>> THEN [x |-> 0, y |-> 0, image |-> img]
  ELSE LET b == img.content[1]
           x == PadStart(b.x, p)
           y == PadStart(b.y, p)
           w == PadLength(img.width, x, b.w, p)
           h == PadLength(img.height, y, b.h, p)
       IN [x |-> x, y |-> y,
           image |-> Image(w, h, <<Box(b.x - x, b.y - y, b.w, b.h)>>)]

InitCrop ==
  /\ IdleSplit /\ IdleParse /\ IdleErase /\ IdleOrder /\ IdleRotation /\ IdleGeometry
  /\ crop_in \in {<<img>> : img \in Images}
  /\ padding \in Paddings
  /\ crop_out = <<>>

AutoCropWhitespace ==
  /\ crop_in # <<>>
  /\ crop_out = <<>>
  /\ crop_out' = <<auto_crop_whitespace(crop_in[1], padding)>>
  /\ UNCHANGED <<crop_in, padding>>
  /\ UNCHANGED <<splitVars, parseVars, eraseVars, orderVars, rotationVars, geometryVars>>

NextCrop == AutoCropWhitespace

SpecCrop == InitCrop /\ [][NextCrop]_vars

(***************************************************************************)
(* correct_image (erase_server.py): perspective, rotation and crop in      *)
(* turn, with the report of what was applied.  What OpenCV finds in the    *)
(* pixels (a document contour, the Hough lines) and the pixels it writes   *)
(* when it warps or rotates are not computed here: they are chosen among   *)
(* the contours, lines and pages below.  A run can be followed by another  *)
(* run on the image the first one returned.                                *)
(***************************************************************************)
\* the number of runs of correct_image in a row
MaxRuns == 2

\* the pages 40 pixels wide and high
Pages == {img \in Images : img.width = 40 /\ img.height = 40}
\* what HoughLinesP finds: nothing, lines that are all left out, lines with
\* a median under, at and over half a degree on both sides, and steep ones
SampleLines ==
  {<<>>, <<Degrees(45)>>, <<0>>, <<Degrees(90), SmallAngle - 2>>,
   <<SmallAngle - 2, SmallAngle + 2>>, <<-(SmallAngle - 2), -(SmallAngle + 2)>>,
   <<SmallAngle + 2>>, <<-(SmallAngle + 2)>>, <<Degrees(10)>>, <<Degrees(20)>>,
   <<-Degrees(20)>>}
Configs == [auto_perspective : BOOLEAN, auto_rotate : BOOLEAN, auto_crop : BOOLEAN]

\* result = {"corrected": False, "perspective_applied": False, ...}
InitialReport ==
  [corrected |-> FALSE, perspective_applied |-> FALSE, rotation_angle |-> 0,
   cropped |-> FALSE]

\* round(angle, 2): to the nearest hundredth of a degree
Hundredth == UnitsPerDegree \div 100
Round2(a) ==
  IF 2 * (a % Hundredth) > Hundredth THEN (a \div Hundredth + 1) * Hundredth
  ELSE (a \div Hundredth) * Hundredth

\* if abs(angle) > 0.5
ReportedAngle(a) == Abs(a) > UnitsPerDegree \div 2
\* (variant) the angle is reported without marking the image corrected
RotationNotMarked(r, a) == [r EXCEPT !.rotation_angle = Round2(a)]
RotationReported(r, a) == [r EXCEPT !.rotation_angle = Round2(a), !.corrected = TRUE]

\* (variant) the crop stage counts as applied whenever it runs
CropRan(before, after) == TRUE
\* processed.shape[:2] != original_size
SizeChanged(before, after) ==
  <<before.height, before.width>> # <<after.height, after.width>>

InitGeometry ==
  /\ IdleSplit /\ IdleParse /\ IdleErase /\ IdleOrder /\ IdleRotation /\ IdleCrop
  /\ processed \in {<<img>> : img \in Pages}
  /\ config \in {<<c>> : c \in Configs}
  /\ result = <<InitialReport>>
  /\ contour = None
  /\ angle = 0
  /\ rotated = FALSE
  /\ gpc = "perspective"
  /\ run = 1

GeometryFrame ==
  UNCHANGED <<splitVars, parseVars, eraseVars, orderVars, rotationVars, cropVars>>

\* 1. perspective: the page is warped when a contour is found
PerspectiveStage ==
  /\ gpc = "perspective"
  /\ IF config[1].auto_perspective
     THEN \E found \in {None, "quad"} :
            /\ contour' = found
            /\ IF found # None
               THEN /\ \E warped \in Pages : processed' = <<warped>>
                    /\ result' = <<[result[1] EXCEPT !.perspective_applied = TRUE,
                                                     !.corrected = TRUE]>>
               ELSE UNCHANGED <<processed, result>>
     ELSE UNCHANGED <<contour, processed, result>>
  /\ gpc' = "rotate"
  /\ UNCHANGED <<config, angle, rotated, run>>
  /\ GeometryFrame

\* 2. rotation
RotateStage ==
  /\ gpc = "rotate"
  /\ IF config[1].auto_rotate
     THEN \E ls \in SampleLines :
            LET found == detect_and_correct_rotation(ls)
            IN /\ angle' = found.angle
               /\ rotated' = found.rotated
               /\ IF found.rotated
                  THEN \E turned \in Pages : processed' = <<turned>>
                  ELSE UNCHANGED processed
               /\ result' = <<IF ReportedAngle(found.angle)
                              THEN RotationReported(result[1], found.angle)
                              ELSE result[1]>>
     ELSE UNCHANGED <<angle, rotated, processed, result>>
  /\ gpc' = "crop"
  /\ UNCHANGED <<config, contour, run>>
  /\ GeometryFrame

\* 3. crop, and the return of the report
CropStage ==
  /\ gpc = "crop"
  /\ IF config[1].auto_crop
     THEN LET after == auto_crop_whitespace(processed[1], DefaultPadding).image
          IN /\ processed' = <<after>>
             /\ result' = <<IF SizeChanged(processed[1], after)
                            THEN [result[1] EXCEPT !.cropped = TRUE, !.corrected = TRUE]
                            ELSE result[1]>>
     ELSE UNCHANGED <<processed, result>>
  /\ gpc' = "done"
  /\ UNCHANGED <<config, contour, angle, rotated, run>>
  /\ GeometryFrame

\* the image returned is given to correct_image again, configured alike
RunAgain ==
  /\ gpc = "done"
  /\ run < MaxRuns
  /\ run' = run + 1
  /\ result' = <<InitialReport>>
  /\ contour' = None
  /\ angle' = 0
  /\ rotated' = FALSE
  /\ gpc' = "perspective"
  /\ UNCHANGED <<processed, config>>
  /\ GeometryFrame

NextGeometry ==
  \/ PerspectiveStage
  \/ RotateStage
  \/ CropStage
  \/ RunAgain

SpecGeometry == InitGeometry /\ [][NextGeometry]_vars

(***************************************************************************)
(* Properties of split_by_question_number, under Spec.                    *)
(***************************************************************************)
\* one more line is read in this step; LastRead is that line
ReadsOne == pc = "scan" /\ Len(lines') = Len(lines) + 1
LastRead == lines'[Len(lines')]
LastLine == lines[Len(lines)]
HasNoisePhrase(t) == \E i \in 1..Len(t) : t[i] \in noise_keywords

\* C1: the list returned by split_by_question_number is strictly ascending
\* by question index (no index twice), whatever the y0 order of the lines.
C1_ResultsAscending ==
  \A i, j \in 1..Len(results) : i < j => results[i].index < results[j].index

\* two results returned, the first lower on the page than the second
C1_Witness ==
  /\ pc = "done"
  /\ Len(results) = 2
  /\ results[1].y0 > results[2].y0

\* a line with a number already used arrives while a question is open
DuplicateRead ==
  /\ ReadsOne
  /\ ~HasNoisePhrase(LastRead.text)
  /\ question_num(LastRead.text) # {}
  /\ question_num(LastRead.text) \subseteq used_numbers
  /\ current_question # <<>>

\* C2 as stated: a line whose number is already used, arriving while a
\* question is open, is appended to the open question's lines and opens no
\* new question.
C2_DuplicateAppended ==
  [][DuplicateRead =>
       /\ current_question' # <<>>
       /\ current_question'[1].index = current_question[1].index
       /\ current_question'[1].lines = Append(current_question[1].lines, LastRead.text)
       /\ questions' = questions]_vars

\* C2 as amended: such a line is skipped; it is appended to no question and
\* opens no new question: the open question, the closed questions and the
\* used numbers stay as they are.
C2_DuplicateSkipped ==
  [][DuplicateRead => UNCHANGED <<questions, current_question, used_numbers>>]_vars

\* question 1 is closed, question 2 is open, and the line just read has
\* number 1 again
C2_Witness ==
  /\ pc = "scan"
  /\ Len(lines) = 3
  /\ ~HasNoisePhrase(LastLine.text)
  /\ question_num(LastLine.text) = {1}
  /\ Len(questions) = 1 /\ questions[1].index = 1
  /\ current_question # <<>> /\ current_question[1].index = 2

\* a line that matches a section-header pattern (and holds no noise phrase)
HeaderRead ==
  /\ ReadsOne
  /\ ~HasNoisePhrase(LastRead.text)
  /\ is_section_header(LastRead.text)

\* C3: a section-header line only updates the section context: it opens no
\* question, closes none, uses no number and is appended to no question.
C3_HeaderOnlyContext ==
  [][HeaderRead => UNCHANGED <<questions, current_question, used_numbers>>]_vars

\* a line with a noise phrase is read
NoiseRead == ReadsOne /\ HasNoisePhrase(LastRead.text)

\* C4: a line with a noise phrase leaves the assembler as it is (questions,
\* open question, section context, used numbers), also when it matches a
\* numbering template or a section-header pattern.
C4_NoiseIgnored ==
  [][NoiseRead => UNCHANGED <<questions, current_question, current_section_type,
                              used_numbers, results>>]_vars

\* the line just read holds a noise phrase, matches a numbering template and
\* a section-header pattern, and a question is open
C4_Witness ==
  /\ pc = "scan"
  /\ lines # <<>>
  /\ HasNoisePhrase(LastLine.text)
  /\ question_num(LastLine.text) # {}
  /\ is_section_header(LastLine.text)
  /\ current_question # <<>>

\* the classes of lines C5 speaks of: a question-start line with a number in
\* 1..100, and a continuation line (no noise, no header, no number)
StartLine(t) ==
  /\ ~HasNoisePhrase(t)
  /\ ~is_section_header(t)
  /\ question_num(t) # {}
  /\ \A n \in question_num(t) : n \in 1..100
PlainLine(t) == ~HasNoisePhrase(t) /\ ~is_section_header(t) /\ question_num(t) = {}
NumberOf(t) == CHOOSE n \in question_num(t) : TRUE
TextsOf(ls) == [k \in 1..Len(ls) |-> ls[k].text]

\* the whole input is: start line a, continuation lines, start line b, a < b
TwoQuestionInput ==
  /\ pc \in {"crop", "done"}
  /\ Len(lines) >= 2
  /\ StartLine(lines[1].text)
  /\ StartLine(LastLine.text)
  /\ NumberOf(lines[1].text) < NumberOf(LastLine.text)
  /\ \A k \in 2..(Len(lines) - 1) : PlainLine(lines[k].text)

\* C5: for start line a, k continuation lines, start line b (a < b) exactly
\* two questions are emitted, with indices [a, b]; the text of the first is
\* its start line followed by the k continuation lines, the second holds
\* only its own start line.
C5_TwoQuestions ==
  TwoQuestionInput =>
    /\ Len(questions) = 2
    /\ questions[1].index = NumberOf(lines[1].text)
    /\ questions[2].index = NumberOf(LastLine.text)
    /\ OcrText(questions[1]) = JoinNl(TextsOf(SubSeq(lines, 1, Len(lines) - 1)))
    /\ OcrText(questions[2]) = LastLine.text
    /\ \A k \in 1..Len(results) :
         results[k].ocrText = IF results[k].index = questions[1].index
                              THEN JoinNl(TextsOf(SubSeq(lines, 1, Len(lines) - 1)))
                              ELSE LastLine.text

\* such an input with a continuation line, both questions returned
C5_Witness ==
  /\ TwoQuestionInput
  /\ pc = "done"
  /\ Len(lines) >= 3
  /\ Len(results) = 2

\* the position in the sorted questions of the question with this index
PositionOf(index) == CHOOSE i \in 1..Len(questions) : questions[i].index = index

\* the range C6 states for the i-th question in index order
StatedRange(i) ==
  LET y1 == IF i < Len(questions) THEN questions[i + 1].y0 - 5 ELSE height
  IN [y0 |-> Max(0, questions[i].y0 - 10), y1 |-> Min(height, y1 + 10)]

\* C6 as stated: the crop range of every question is
\* [max(0, y0-10), min(height, y1+10)), y1 the next question's y0 - 5 in
\* index order, or the image height for the last.
C6_RangeAlways ==
  \A k \in 1..Len(results) :
    LET stated == StatedRange(PositionOf(results[k].index))
    IN results[k].y0 = stated.y0 /\ results[k].y1 = stated.y1

\* C6 as amended: the crop range is that range whenever that range is not
\* empty (its start below its end).
C6_RangeUnlessEmpty ==
  \A k \in 1..Len(results) :
    LET stated == StatedRange(PositionOf(results[k].index))
    IN stated.y0 < stated.y1 => results[k].y0 = stated.y0 /\ results[k].y1 = stated.y1

\* two results; the first one ends where the next question in index order
\* says, above the bottom of the image
C6_Witness ==
  /\ pc = "done"
  /\ Len(results) = 2
  /\ StatedRange(1).y0 < StatedRange(1).y1
  /\ results[1].index = questions[1].index
  /\ results[1].y1 = questions[2].y0 + 5
  /\ results[1].y1 < height

\* the results of the first n questions, those left out whose crop raised or
\* whose range is empty
RECURSIVE ResultsWithout(_, _)
ResultsWithout(n, failed) ==
  IF n = 0 THEN <<>>
  ELSE IF questions[n].index \in failed
          \/ CropRange(questions, n, height).y1 <= CropRange(questions, n, height).y0
       THEN ResultsWithout(n - 1, failed)
       ELSE Append(ResultsWithout(n - 1, failed), QuestionResult(questions, n, height))

\* C7: when the crop or the parse of one question fails, only that question
\* is missing: the results are those of the questions handled so far, each
\* as it is without any failure, less the failed ones; the loop goes on to
\* the return.
C7_FailureIsolated ==
  pc \in {"crop", "done"} =>
    LET unfailed == ResultsWithout(qi - 1, {})
    IN /\ results = ResultsWithout(qi - 1, raised)
       /\ \A k \in 1..Len(results) :
            \E n \in 1..Len(unfailed) : results[k] = unfailed[n]
       /\ (pc = "crop" /\ raised # {}) =>
            ENABLED (CropEmpty \/ CropRaises \/ CropAppends \/ Return)

\* the call has returned; one question failed and a later one is returned
C7_Witness ==
  /\ pc = "done"
  /\ \E f \in raised : \E k \in 1..Len(results) : f < results[k].index
  /\ \E f \in raised : \E k \in 1..Len(results) : f > results[k].index

(***************************************************************************)
(* Properties of parse_question_content, under SpecParse.                 *)
(***************************************************************************)
Stem == parsed[1].stem
Options == parsed[1].options
Cleaned == clean_text(ocr_text)
UpperCase == <<"A", "B", "C", "D", "E">>
IsUpperCase(l) == \E k \in 1..Len(UpperCase) : UpperCase[k] = l
AlphabetPos(l) == CHOOSE k \in 1..Len(UpperCase) : UpperCase[k] = l

\* C8: the options have pairwise distinct labels, each a single uppercase
\* letter, and are sorted ascending by label.
C8_LabelsSorted ==
  ppc = "parsed" =>
    /\ \A i \in 1..Len(Options) : IsUpperCase(Options[i].label)
    /\ \A i, j \in 1..Len(Options) :
         i < j => AlphabetPos(Options[i].label) < AlphabetPos(Options[j].label)

\* the first marker of the text is a lower-case b, a later one an A; both
\* options are returned
C8_Witness ==
  /\ ppc = "parsed"
  /\ Len(Options) = 2
  /\ option_matches(Cleaned) # <<>>
  /\ option_matches(Cleaned)[1].label = "b"
  /\ Options[1].label = "A"

\* the text between the i-th marker and the next one (the end for the last)
Between(t, m, i) ==
  Strip(SubSeq(t, m[i].end, (IF i < Len(m) THEN m[i + 1].start ELSE Len(t) + 1) - 1))

\* C9: when a template yields at least two markers, the stem is the cleaned
\* text before the first marker and the content of each option is the text
\* between its marker and the next marker, or the end of the text; the stem
\* "qiu x de zhi" followed by A.1 B.2 C.3 yields exactly [A:1, B:2, C:3].
C9_StemAndContents ==
  ppc = "parsed" =>
    LET m == option_matches(Cleaned)
    IN /\ Len(m) >= 2 =>
            /\ Stem = Strip(SubSeq(Cleaned, 1, m[1].start - 1))
            /\ \A k \in 1..Len(Options) :
                 \E i \in 1..Len(m) :
                   /\ Upper(m[i].label) = Options[k].label
                   /\ \A j \in 1..(i - 1) : Upper(m[j].label) # Options[k].label
                   /\ Options[k].content = Between(Cleaned, m, i)
       /\ ocr_text = TextStemOptions =>
            parsed[1] = [stem |-> <<"qiu", "x", "de", "zhi">>,
                         options |-> << [label |-> "A", content |-> <<"1">>],
                                        [label |-> "B", content |-> <<"2">>],
                                        [label |-> "C", content |-> <<"3">>] >>]

\* the example text is parsed
C9_Witness == ppc = "parsed" /\ ocr_text = TextStemOptions /\ Len(Options) = 3

\* the markers each template finds in the cleaned text
StandardMarkers == finditer("standard", Cleaned, 1)
LoneMarkers == finditer("lone", Cleaned, 1)
LabelsOf(m) == {Upper(m[i].label) : i \in 1..Len(m)}

\* C10: the two templates are tried in order and the first one that yields
\* at least 2 matches is used; if neither does, the stem is the full cleaned
\* text and there are no options.
C10_TemplateOrder ==
  ppc = "parsed" =>
    /\ Len(StandardMarkers) >= 2 =>
         /\ Stem = Strip(SubSeq(Cleaned, 1, StandardMarkers[1].start - 1))
         /\ \A k \in 1..Len(Options) : Options[k].label \in LabelsOf(StandardMarkers)
    /\ (Len(StandardMarkers) < 2 /\ Len(LoneMarkers) >= 2) =>
         /\ Stem = Strip(SubSeq(Cleaned, 1, LoneMarkers[1].start - 1))
         /\ \A k \in 1..Len(Options) : Options[k].label \in LabelsOf(LoneMarkers)
    /\ (Len(StandardMarkers) < 2 /\ Len(LoneMarkers) < 2) =>
         /\ Stem = Strip(Cleaned)
         /\ Options = <<>>

\* the first template finds one marker, the second two: the second is used
C10_Witness ==
  /\ ppc = "parsed"
  /\ Len(StandardMarkers) = 1
  /\ Len(LoneMarkers) >= 2
  /\ Options # <<>>
  /\ Stem # <<>>

(***************************************************************************)
(* Claims about the erasing services                                       *)
(***************************************************************************)
Answered == data # <<>> /\ response # <<>>
AnsweredOk == Answered /\ response[1].status = 200
\* the erased image of the answer
Erased == response[1].image[1]
\* the sources the claim names for each mode
StatedSources(mode) ==
  CASE mode = "black" -> {"dark"}
    [] mode = "blue" -> {"blue"}
    [] mode = "color" -> {"blue", "red1", "red2", "green"}
    [] OTHER -> {"blue", "red1", "red2", "green", "dark"}

\* C11: the ink sources that enter the erase mask are: black -> the dark-ink
\* mask only; blue -> the blue mask only; color -> the blue, red and green
\* masks; auto and ai -> all of them.  The code leaves the dark-ink mask out
\* in mode auto, so this statement is violated.
C11_SourcesByMode ==
  AnsweredOk /\ response[1].mode \in {"black", "blue", "color", "auto", "ai"}
    => Erased.mask = StatedSources(response[1].mode)

\* a request in mode ai with an image, answered by main.py
AiAnswered ==
  /\ Answered
  /\ data[1].server = "main"
  /\ data[1].image # "missing"
  /\ ModeOrAi(data[1]) = "ai"
\* a step of the enhanced path raised for that request
EnhancedRaised == Channels(Decoded(data[1].image)) \notin {3, 4} \/ data[1].inpaint_raises

\* C12 as stated: when a step of the enhanced path raises, the call returns
\* the flat-fill result on the same image, and it always returns an image.
C12_AlwaysReturns ==
  AiAnswered =>
    /\ response[1].status = 200
    /\ EnhancedRaised => Erased.fill = "flat" /\ Erased.of = Decoded(data[1].image)

\* C12 as amended: when a step of the enhanced path raises, the call runs the
\* flat-fill path on the same image and returns its result, the error of the
\* enhanced path being dropped; it raises only when the flat-fill path raises
\* too (an image that is not 3- or 4-channel).
C12_FallbackOutcome ==
  AiAnswered /\ EnhancedRaised =>
    IF Channels(Decoded(data[1].image)) \in {3, 4}
    THEN /\ response[1].status = 200
         /\ Erased.fill = "flat"
         /\ Erased.of = Decoded(data[1].image)
    ELSE response[1].status = 500

C12_Witness ==
  /\ AiAnswered
  /\ data[1].inpaint_raises
  /\ response[1].status = 200
  /\ Erased.fill = "flat"

(***************************************************************************)
(* Claims about the geometry functions                                     *)
(***************************************************************************)
Ordered == rect[1]
Corner(k) == Ordered[k]
IsInput(p) == \E i \in 1..4 : pts[i] = p

\* C13: for any four points, order_points returns (tl, tr, br, bl) where tl
\* has the least and br the greatest x+y of the four points, and tr has the
\* least and bl the greatest y-x.
C13_CornersExtreme ==
  rect # <<>> =>
    /\ \A k \in 1..4 : IsInput(Corner(k))
    /\ \A i \in 1..4 :
         /\ Corner(1)[1] + Corner(1)[2] <= pts[i][1] + pts[i][2]
         /\ Corner(3)[1] + Corner(3)[2] >= pts[i][1] + pts[i][2]
         /\ Corner(2)[2] - Corner(2)[1] <= pts[i][2] - pts[i][1]
         /\ Corner(4)[2] - Corner(4)[1] >= pts[i][2] - pts[i][1]

\* an upright rectangle given in another order than the result's
C13_Witness ==
  /\ rect # <<>>
  /\ pts = << <<2, 2>>, <<0, 0>>, <<0, 2>>, <<2, 0>> >>
  /\ Ordered = << <<0, 0>>, <<2, 0>>, <<2, 2>>, <<0, 2>> >>

\* the kept angles of the lines given
Kept == KeptAngles(hough_lines)
\* 0.5 and 15 degrees in units
HalfDegree == 150
FifteenDegrees == 4500

\* C14: with m the median of the kept line angles, the function leaves the
\* image alone and returns 0 when |m| < 0.5 degrees; otherwise it rotates by
\* and returns m clamped to [-15, 15] degrees; the returned angle never
\* exceeds 15 degrees in magnitude.
C14_ThresholdAndClamp ==
  rotation # <<>> /\ Kept # <<>> =>
    LET m == Median(Kept)
        r == rotation[1]
    IN /\ Abs(m) < HalfDegree => r.angle = 0 /\ ~r.rotated
       /\ Abs(m) >= HalfDegree =>
            /\ r.rotated
            /\ r.angle = (IF m > FifteenDegrees THEN FifteenDegrees
                          ELSE IF m < -FifteenDegrees THEN -FifteenDegrees ELSE m)
       /\ Abs(r.angle) <= FifteenDegrees

\* three kept lines with a median of 20 degrees: the rotation is by 15
C14_Witness ==
  /\ rotation # <<>>
  /\ Len(Kept) = 3
  /\ Median(Kept) = 6000
  /\ rotation[1].angle = FifteenDegrees

\* the image cropped, its content box, and the slice returned
CropImage == crop_in[1]
ContentBox == CropImage.content[1]
Slice == crop_out[1]
HasContent == crop_out # <<>> /\ CropImage.content # <<>>

\* C16: for an image with content and a padding p >= 0, the function returns
\* the region [max(0, x-p), min(W, x+w+p)) x [max(0, y-p), min(H, y+h+p)),
\* (x, y, w, h) being the bounding box of the content and W, H the image
\* size.  The code measures the padded length from the clipped start, so
\* this statement is violated when the box is nearer than p to the left or
\* the top edge.
C16_ExpandedAndClipped ==
  HasContent =>
    /\ Slice.x = Max(0, ContentBox.x - padding)
    /\ Slice.x + Slice.image.width
         = Min(CropImage.width, ContentBox.x + ContentBox.w + padding)
    /\ Slice.y = Max(0, ContentBox.y - padding)
    /\ Slice.y + Slice.image.height
         = Min(CropImage.height, ContentBox.y + ContentBox.h + padding)

\* the white margins around the content are at least the padding
WideMargins ==
  /\ ContentBox.x >= padding
  /\ ContentBox.y >= padding
  /\ CropImage.width - (ContentBox.x + ContentBox.w) >= padding
  /\ CropImage.height - (ContentBox.y + ContentBox.h) >= padding

\* C17: when the content is one rectangle with white margins of at least the
\* padding on all four sides, the function returns exactly the bounds of the
\* rectangle expanded by the padding on every side.
C17_ExactExpansion ==
  HasContent /\ WideMargins =>
    /\ Slice.x = ContentBox.x - padding
    /\ Slice.y = ContentBox.y - padding
    /\ Slice.image.width = ContentBox.w + 2 * padding
    /\ Slice.image.height = ContentBox.h + 2 * padding

\* a rectangle with margins wider than the default padding, cropped
C17_Witness ==
  /\ HasContent
  /\ WideMargins
  /\ padding = 10
  /\ ContentBox = Box(15, 10, 5, 20)
  /\ Slice.image.width < CropImage.width
  /\ Slice.image.height = CropImage.height

(***************************************************************************)
(* Claims about the geometry pipeline                                      *)
(***************************************************************************)
Report == result[1]
\* the rotation stage of this run is over
AfterRotation == gpc \in {"crop", "done"}

\* C15: whenever the rotation stage rotates the image by a non-zero angle,
\* the report carries that angle rounded to two decimals in rotation_angle
\* and is marked corrected; rotation_angle is 0.0 only when the image was
\* not rotated.  The code rotates from 0.5 degrees on but reports only
\* above 0.5 degrees, so this statement is violated at exactly 0.5.
C15_RotationReported ==
  AfterRotation =>
    /\ rotated => Report.rotation_angle = Round2(angle) /\ Report.corrected
    /\ Report.rotation_angle = 0 => ~rotated

\* this run found no contour and no skew to correct
NothingFound == contour = None /\ ~rotated

\* C18: a run on the image a previous run returned, with the same
\* configuration, that finds no contour and a skew under the threshold,
\* reports perspective_applied false, rotation_angle 0.0 and cropped false:
\* cropping what was cropped keeps the size.
C18_SecondRunIdle ==
  run >= 2 /\ gpc = "done" /\ NothingFound =>
    /\ ~Report.perspective_applied
    /\ Report.rotation_angle = 0
    /\ ~Report.cropped
    /\ ~Report.corrected

\* a second run with the crop stage on, over a page the first run cropped
C18_Witness ==
  /\ run = 2
  /\ gpc = "done"
  /\ NothingFound
  /\ config[1].auto_crop
  /\ processed[1].width < 40
  /\ processed[1].content # <<>>

ReportConsistent ==
  /\ Report.corrected <=>
       Report.perspective_applied \/ Report.rotation_angle # 0 \/ Report.cropped
  /\ ~config[1].auto_perspective \/ contour = None => ~Report.perspective_applied
  /\ ~config[1].auto_rotate \/ ~rotated => Report.rotation_angle = 0
  /\ ~config[1].auto_crop \/ processed[1].content = <<>> => ~Report.cropped

\* C19: in every report, corrected is true exactly when perspective_applied
\* is true or rotation_angle is not zero or cropped is true; a stage that is
\* off or has nothing to do (no contour, angle under the threshold, no
\* foreground) leaves its field at false / 0.0; and the stages run in the
\* order perspective, rotation, crop.
C19_ReportAndOrder ==
  [][/\ gpc = "perspective" => gpc' = "rotate"
     /\ gpc = "rotate" => gpc' = "crop"
     /\ gpc = "crop" => gpc' = "done" /\ ReportConsistent']_vars

\* a report of a rotation alone, on a page that has no foreground
C19_Witness ==
  /\ gpc = "done"
  /\ config[1].auto_perspective /\ contour = None
  /\ Report.rotation_angle # 0
  /\ config[1].auto_crop /\ processed[1].content = <<>>
  /\ Report = [corrected |-> TRUE, perspective_applied |-> FALSE,
               rotation_angle |-> Report.rotation_angle, cropped |-> FALSE]

(***************************************************************************)
(* Claims about the answer of /erase-handwriting                           *)
(***************************************************************************)
\* C20: the method field of main.py's answer names the path that produced
\* the returned image: "ai" only when the enhanced inpainting path produced
\* it, "opencv" when the flat-fill path did, also after a fallback.  The
\* handler sets the field from the requested mode alone, so this statement
\* is violated when mode ai falls back.
C20_MethodNamesPath ==
  AnsweredOk /\ data[1].server = "main" =>
    /\ response[1].method = "ai" <=> Erased.fill = "inpaint"
    /\ response[1].method = "opencv" <=> Erased.fill = "flat"

(***************************************************************************)
(* Claims about rejected numbers, the fallback window, closed questions    *)
(* and the returned text                                                   *)
(***************************************************************************)
\* a line whose number is outside 1..100 arrives while a question is open
OutOfRangeRead ==
  /\ ReadsOne
  /\ ~HasNoisePhrase(LastRead.text)
  /\ \E n \in question_num(LastRead.text) : n < MinNumber \/ n > MaxNumber
  /\ current_question # <<>>

\* C21 as stated: a line that matches a numbering template with a number
\* outside 1..100 is demoted to a continuation: its text is appended to the
\* open question and no new question is opened.
C21_OutOfRangeAppended ==
  [][OutOfRangeRead =>
       /\ current_question' # <<>>
       /\ current_question'[1].index = current_question[1].index
       /\ current_question'[1].lines = Append(current_question[1].lines, LastRead.text)
       /\ questions' = questions]_vars

\* C21 as amended: such a line is skipped: it is appended to no question,
\* opens and closes no question and uses no number.
C21_OutOfRangeSkipped ==
  [][OutOfRangeRead => UNCHANGED <<questions, current_question, used_numbers>>]_vars

\* question 1 is open and the line just read has number 0: the question has
\* no line from it
C21_Witness ==
  /\ pc = "scan"
  /\ Len(lines) >= 2
  /\ ~HasNoisePhrase(LastLine.text)
  /\ question_num(LastLine.text) = {0}
  /\ current_question # <<>> /\ current_question[1].index = 1
  /\ \A k \in 1..Len(current_question[1].lines) :
       current_question[1].lines[k] # LastLine.text

\* the window of the fallback, within the image: 100 rows from the
\* question's y0 (from row 0 when y0 is above the image), cut at the bottom
Window(q) ==
  LET start == IF q.y0 < 0 THEN 0 ELSE q.y0
      end == IF start + 100 > height THEN height ELSE start + 100
  IN [y0 |-> start, y1 |-> end]
ResultsOf(index) == {k \in 1..Len(results) : results[k].index = index}

\* C22: a question whose recomputed crop range is degenerate (start >= end)
\* and whose crop does not raise is returned with the 100px window that
\* starts at its own y0, and is left out when that window is empty, and only
\* then.
C22_FallbackWindow ==
  \A i \in 1..Len(questions) :
    (pc \in {"crop", "done"} /\ i < qi
       /\ StatedRange(i).y0 >= StatedRange(i).y1
       /\ questions[i].index \notin raised) =>
      IF Window(questions[i]).y0 < Window(questions[i]).y1
      THEN \E k \in ResultsOf(questions[i].index) :
             /\ results[k].y0 = Window(questions[i]).y0
             /\ results[k].y1 = Window(questions[i]).y1
      ELSE ResultsOf(questions[i].index) = {}

\* question 1 lies below question 2 and is returned with the rows 30..130;
\* question 3 starts below the image, its window is empty and it is left out
C22_Witness ==
  /\ pc = "done"
  /\ raised = {}
  /\ Len(questions) = 3
  /\ StatedRange(1).y0 >= StatedRange(1).y1
  /\ StatedRange(3).y0 >= StatedRange(3).y1
  /\ questions[3].y0 >= height
  /\ Len(results) = 2
  /\ results[1].index = 1 /\ results[1].y0 = 30 /\ results[1].y1 = 130

\* every closed question is still among the closed questions after the
\* step, with its index, y0, lines and type
ClosedKept ==
  \A i \in 1..Len(questions) :
    \E j \in 1..Len(questions') :
      /\ questions'[j].index = questions[i].index
      /\ questions'[j].y0 = questions[i].y0
      /\ questions'[j].lines = questions[i].lines
      /\ questions'[j].type = questions[i].type
\* the open question stays open and its type was set
OpenTyped ==
  /\ current_question # <<>> /\ current_question' # <<>>
  /\ current_question'[1].index = current_question[1].index
  /\ current_question[1].type # None

\* C23: once a question is closed, no later step changes its index, y0,
\* lines or type; and while a question is open, a type that is set is not
\* overwritten by a later line.
C23_ClosedImmutable ==
  [][/\ ClosedKept
     /\ OpenTyped => current_question'[1].type = current_question[1].type]_vars

\* question 1 is closed; the open question has a type and the line just
\* appended to it shows another type
C23_Witness ==
  /\ pc = "scan"
  /\ Len(lines) = 3
  /\ Len(questions) = 1
  /\ current_question # <<>>
  /\ current_question[1].lines = <<LastLine.text>>
  /\ detect_question_type(LastLine.text) # None
  /\ current_question[1].type # None
  /\ current_question[1].type # detect_question_type(LastLine.text)

\* C25: every result returned has 0 <= y0 < y1 <= image height, whatever
\* the y0 of the lines: above the image, below it, or in another order than
\* the indices.
C25_RangeInImage ==
  \A k \in 1..Len(results) :
    /\ 0 <= results[k].y0
    /\ results[k].y0 < results[k].y1
    /\ results[k].y1 <= height

\* two results returned from three questions: one starts above the image,
\* one below it, and one lies below a question of a greater index
C25_Witness ==
  /\ pc = "done"
  /\ Len(results) = 2
  /\ \E i \in 1..Len(questions) : questions[i].y0 < 0
  /\ \E i \in 1..Len(questions) : questions[i].y0 > height
  /\ \E i, j \in 1..Len(questions) : i < j /\ questions[i].y0 > questions[j].y0

\* C26: once the call has returned, the ocrText of every returned question
\* is its start line followed by the continuation lines appended to it,
\* each once and in input order; the start line appears only at the
\* beginning.  The start line of
\* question n is the first input line without a noise phrase that has the
\* number n; the question ends at the next line that starts a question, or
\* after the last line; its continuation lines are the lines in between
\* that have no noise phrase and no number.
C26_TextIsStartThenLines ==
  LET noise == [k \in 1..Len(lines) |-> HasNoisePhrase(lines[k].text)]
      num == [k \in 1..Len(lines) |->
                IF noise[k] THEN {} ELSE question_num(lines[k].text)]
      FirstWith(k, n) == num[k] = {n} /\ \A j \in 1..(k - 1) : num[j] # {n}
      Starts(k) == \E n \in num[k] : MinNumber <= n /\ n <= MaxNumber /\ FirstWith(k, n)
      StartPos(n) == CHOOSE k \in 1..Len(lines) : FirstWith(k, n)
      StartsAfter(n) == {k \in (StartPos(n) + 1)..Len(lines) : Starts(k)}
      EndPos(n) ==
        IF StartsAfter(n) = {} THEN Len(lines) + 1
        ELSE CHOOSE k \in StartsAfter(n) : \A j \in StartsAfter(n) : k <= j
      Inside(n) == [i \in 1..(EndPos(n) - StartPos(n) - 1) |-> StartPos(n) + i]
      Continuation(k) == ~noise[k] /\ num[k] = {}
      Continuations(n) ==
        LET kept == SelectSeq(Inside(n), Continuation)
        IN [i \in 1..Len(kept) |-> lines[kept[i]].text]
  IN pc = "done" =>
       \A k \in 1..Len(results) :
         LET start == lines[StartPos(results[k].index)].text
             appended == Continuations(results[k].index)
         IN /\ results[k].ocrText = JoinNl(<<start>> \o appended)
            /\ \A j \in 1..Len(appended) : appended[j] # start

\* question 1 with the same continuation line twice: both are in its text
C26_Witness ==
  /\ pc = "done"
  /\ TextsOf(lines) = <<TextQ1, TextOptionLine, TextOptionLine>>
  /\ Len(results) = 1
  /\ results[1].ocrText = JoinNl(<<TextQ1, TextOptionLine, TextOptionLine>>)

(***************************************************************************)
(* Claims about the corners order_points returns                           *)
(***************************************************************************)
\* twice the signed area of the triangle a, b, c
Cross(a, b, c) == (b[1] - a[1]) * (c[2] - b[2]) - (b[2] - a[2]) * (c[1] - b[1])
\* the turn at the i-th point of the contour pts[1], ..., pts[4]
Turn(i) == Cross(pts[i], pts[(i % 4) + 1], pts[((i + 1) % 4) + 1])
\* the contour is a convex quadrilateral: it turns the same way at each of
\* its corners (so the corners are distinct and no three are on a line)
Convex == (\A i \in 1..4 : Turn(i) > 0) \/ (\A i \in 1..4 : Turn(i) < 0)

\* C24: for a convex quadrilateral with four distinct corners, the points
\* order_points returns are a permutation of the input points: every input
\* corner is at one of the four positions, none at two.  A quadrilateral
\* standing on a corner has two corners with the least x+y and two with the
\* least y-x, and the first of them is taken for both positions, so this
\* statement is violated.
C24_Permutation ==
  (rect # <<>> /\ Convex) =>
    /\ \A i \in 1..4 : \E k \in 1..4 : Corner(k) = pts[i]
    /\ \A k, l \in 1..4 : k # l => Corner(k) # Corner(l)

(***************************************************************************)
(* Claims about the number of options parse_question_content returns       *)
(***************************************************************************)
\* C27: parse_question_content never returns exactly one option: the
\* options are either none, and then the stem is the whole cleaned text, or
\* at least two.  The two markers the function asks for may carry the same
\* label, or one of them may have no content, and then one option (or none,
\* with a shortened stem) is returned, so this statement is violated.
C27_NeverOneOption ==
  ppc = "parsed" =>
    \/ Len(Options) = 0 /\ Stem = Strip(Cleaned)
    \/ Len(Options) >= 2

====
